---- MODULE Spec2Model ----
(***************************************************************************)
(* Model of PRNet/utils/visualizer.py: the image/loss logging sink of the  *)
(* training loop.  The state is the part of the file system the module     *)
(* writes (image files, directories, loss_log.txt), standard output, the   *)
(* HTML page object handed to save_images and the `saved` flag of every    *)
(* Visualizer instance.  Text is modelled as a sequence of tokens, so that *)
(* string formatting and concatenation are computed, not assumed.          *)
(***************************************************************************)
EXTENDS Integers, Sequences, FiniteSets, TLC

\* ------------------------------------------------------------------ bounds
\* calls made in one behaviour of the whole component
MaxCalls == 2
\* calls made in one behaviour of reset and display_current_results alone
MaxDisplayCalls == 3

\* ------------------------------------------------------------------ inputs
Loggers == {1, 2}
Labels == {"real", "fake"}
Epochs == {1}
Iters == {2, 12}
Times == {"t1", "t2"}
\* loss values and times are given in units of 1/10000
TimeVals == {1004}
ImagePaths == {<< <<"data", "/", "s1", ".jpg">> >>,
               << <<"C:", "\\", "out", "/", "s2", ".tar", ".png">>, <<"unused">> >>}
DotTokens == {".jpg", ".png", ".tar"}

\* ------------------------------------------------------------ text helpers
DigitStr == <<"0", "1", "2", "3", "4", "5", "6", "7", "8", "9">>

RECURSIVE Digits(_)
\* decimal digits of n >= 0, most significant first ("0" for 0)
Digits(n) ==
    IF n < 10 THEN <<DigitStr[n + 1]>>
    ELSE Digits(n \div 10) \o <<DigitStr[(n % 10) + 1]>>

RECURSIVE ZeroPad(_, _)
ZeroPad(s, w) == IF Len(s) >= w THEN s ELSE ZeroPad(<<"0">> \o s, w)

\* '%d' % n
FmtD(n) == IF n < 0 THEN <<"-">> \o Digits(-n) ELSE Digits(n)

\* '%.3d' % n : at least three digits, zero padded, sign in front
Fmt03d(n) ==
    IF n < 0 THEN <<"-">> \o ZeroPad(Digits(-n), 3) ELSE ZeroPad(Digits(n), 3)

\* '%.3f' % x for x given in units of 1/10000 (last digit never 5: no tie)
Fmt3f(x) ==
    LET a == IF x < 0 THEN -x ELSE x
        m == (a + 5) \div 10
    IN  (IF x < 0 THEN <<"-">> ELSE <<>>)
        \o Digits(m \div 1000) \o <<".">> \o ZeroPad(Digits(m % 1000), 3)

IsPrefix(s, t) == Len(s) <= Len(t) /\ SubSeq(t, 1, Len(s)) = s

\* the keys of an ordered dictionary, a sequence of <<key, value>> pairs
KeysOf(d) == {d[k][1] : k \in 1..Len(d)}

\* the label orders of the VisualSets handed in
LabelOrders == {<<>>, <<"real">>, <<"fake", "real">>}

\* the image tensor of a label at a training step: every call is handed the
\* images of its own step
Tensor(label, step) == [label |-> label, step |-> step]

\* the VisualSet of a step: an ordered dictionary label -> image
Visuals(order, step) == [k \in 1..Len(order) |-> <<order[k], Tensor(order[k], step)>>]

\* the LossSets handed in: ordered dictionaries name -> value
LossSets == {<<>>, << <<"G", 12348>>, <<"D", 5000>> >>, << <<"D", 5000>>, <<"G", 12348>> >>}

\* ------------------------------------------------------------------- state
VARIABLES
    files,        \* image files: <<directory, file name>> -> [im, mode]
    dirs,         \* existing directories
    log,          \* content of loss_log.txt
    out,          \* standard output
    openHandles,  \* open handles on loss_log.txt
    page,         \* the HTML page object: its headers and image rows
    constructed,  \* the Visualizer instances that exist
    saved,        \* self.saved of every instance
    nops,         \* calls made so far; call nops + 1 is handed the images of step nops + 1
    last,         \* history: the last call, its inputs and the state before it
    started,      \* history: a display call was started since construction/reset
    calls,        \* history: the lines handed to the log by completed calls
    oldLog        \* history: loss_log.txt as found by the first constructor

vars == <<files, dirs, log, out, openHandles, page, constructed, saved, nops,
          last, started, calls, oldLog>>

ImgDir == "checkpoints/exp/images"
WebImageDir == "web/images"
ResultsDirs == {"results"}

\* ------------------------------------------------------- the collaborators
\* utils.tensor2im: the displayable array of an image and its colour mode
tensor2im(im_data) == [im |-> im_data, mode |-> "RGB"]

\* utils.save_image: the PNG at save_path is created or replaced
save_image(fs, im, save_path, mode) ==
    [p \in (DOMAIN fs) \cup {save_path} |->
        IF p = save_path THEN [im |-> im, mode |-> mode] ELSE fs[p]]

\* html.HTML.get_image_dir
get_image_dir(webpage) == WebImageDir

\* html.HTML.add_header
add_header(pg, text) == Append(pg, [kind |-> "header", text |-> text])

\* ntpath.basename: what follows the last slash or backslash
basename(p) ==
    LET seps == {k \in 1..Len(p) : p[k] \in {"/", "\\"}}
        cut == IF seps = {} THEN 0 ELSE CHOOSE k \in seps : \A j \in seps : j <= k
    IN  SubSeq(p, cut + 1, Len(p))

\* os.path.splitext(...)[0]: the last extension goes, a leading dot stays
splitext0(s) ==
    IF Len(s) > 1 /\ s[Len(s)] \in DotTokens THEN SubSeq(s, 1, Len(s) - 1) ELSE s

\* --------------------------------------------------------------- file names
\* '%s_%s.png' % (name, label)
SampleImageName(name, label) == name \o <<"_", label, ".png">>

\* 'iter%.3d_%s.png' % (iter, label)
IterImageName(iter, label) == <<"iter">> \o Fmt03d(iter) \o <<"_", label, ".png">>

\* 'epoch%.3d_iter%.3d_%s.png' % (epoch, iter, label)
EpochImageName(epoch, iter, label) ==
    <<"epoch">> \o Fmt03d(epoch) \o <<"_iter">> \o Fmt03d(iter)
    \o <<"_", label, ".png">>

\* os.path.join(dir, name)
join(dir, name) == <<dir, name>>

\* the file names of a VisualSet under a naming scheme, in insertion order
SampleNames(name, visuals) ==
    [k \in 1..Len(visuals) |-> SampleImageName(name, visuals[k][1])]
IterNames(iter, visuals) ==
    [k \in 1..Len(visuals) |-> IterImageName(iter, visuals[k][1])]
EpochNames(epoch, iter, visuals) ==
    [k \in 1..Len(visuals) |-> EpochImageName(epoch, iter, visuals[k][1])]

\* ------------------------------------------------------------ the for loops
\* for label, image in visuals.items(): convert, name, save.  The k-th
\* iteration raises when fail = k (fail = 0: none does); the loop ends there.
RECURSIVE VisualsLoopSkipping(_, _, _, _, _, _)
\* (mutant) the loop catches the failure of an image and goes on with the next
VisualsLoopSkipping(fs, dir, names, visuals, k, fail) ==
    IF k > Len(visuals) THEN [files |-> fs, raised |-> fail # 0, done |-> k - 1]
    ELSE IF k = fail
    THEN VisualsLoopSkipping(fs, dir, names, visuals, k + 1, fail)
    ELSE LET t == tensor2im(visuals[k][2])
         IN  VisualsLoopSkipping(save_image(fs, t.im, join(dir, names[k]), t.mode),
                                 dir, names, visuals, k + 1, fail)

RECURSIVE VisualsLoopFrom(_, _, _, _, _, _)
VisualsLoopFrom(fs, dir, names, visuals, k, fail) ==
    IF k > Len(visuals) THEN [files |-> fs, raised |-> FALSE, done |-> k - 1]
    ELSE IF k = fail THEN [files |-> fs, raised |-> TRUE, done |-> k - 1]
    ELSE LET t == tensor2im(visuals[k][2])
         IN  VisualsLoopFrom(save_image(fs, t.im, join(dir, names[k]), t.mode),
                             dir, names, visuals, k + 1, fail)

VisualsLoop(fs, dir, names, visuals, fail) ==
    VisualsLoopFrom(fs, dir, names, visuals, 1, fail)

\* -------------------------------------------------------------- operations
\* (mutant) save_images that returns at once when there is nothing to save
save_images_skips_empty(webpage, visuals, image_path, fs, pg, fail) ==
    IF webpage = "None" \/ visuals = <<>>
    THEN [files |-> fs, page |-> pg, raised |-> webpage = "None",
          ims |-> <<>>, txts |-> <<>>, links |-> <<>>]
    ELSE LET name == splitext0(basename(image_path[1]))
             names == SampleNames(name, visuals)
             r == VisualsLoop(fs, get_image_dir(webpage), names, visuals, fail)
         IN  [files |-> r.files, page |-> add_header(pg, name), raised |-> r.raised,
              ims |-> SubSeq(names, 1, r.done),
              txts |-> [k \in 1..r.done |-> visuals[k][1]],
              links |-> SubSeq(names, 1, r.done)]

\* save_images(webpage, visuals, image_path): webpage is "page" or "None"
save_images(webpage, visuals, image_path, fs, pg, fail) ==
    IF webpage = "None"
    THEN \* None has no get_image_dir: AttributeError at the first statement
         [files |-> fs, page |-> pg, raised |-> TRUE,
          ims |-> <<>>, txts |-> <<>>, links |-> <<>>]
    ELSE LET image_dir == get_image_dir(webpage)
             short_path == basename(image_path[1])
             name == splitext0(short_path)
             names == SampleNames(name, visuals)
             r == VisualsLoop(fs, image_dir, names, visuals, fail)
         IN  \* ims, txts and links are filled and dropped when the call returns
             [files |-> r.files, page |-> add_header(pg, name), raised |-> r.raised,
              ims |-> SubSeq(names, 1, r.done),
              txts |-> [k \in 1..r.done |-> visuals[k][1]],
              links |-> SubSeq(names, 1, r.done)]

\* (mutant) display_test_results that leaves an existing file as it is
display_test_results_keeps_old(results_dir, visuals, iter, fs, ds, fail) ==
    LET r == VisualsLoop(fs, results_dir, IterNames(iter, visuals), visuals,
                         fail)
    IN  [files |-> [p \in DOMAIN r.files |->
                       IF p \in DOMAIN fs THEN fs[p] ELSE r.files[p]],
         dirs |-> ds \cup {results_dir}, raised |-> r.raised]

\* display_test_results(results_dir, visuals, iter)
display_test_results(results_dir, visuals, iter, fs, ds, fail) ==
    LET r == VisualsLoop(fs, results_dir, IterNames(iter, visuals), visuals,
                         fail)
    IN  [files |-> r.files, dirs |-> ds \cup {results_dir}, raised |-> r.raised]

\* the header line written by the constructor
HeaderLine(now) ==
    <<"================ Training Loss (", now, ") ================", "\n">>

\* (mutant) open and close without the with statement: a raising write skips
\* the close
AppendToLogNoWith(lg, handles, text, fail) ==
    IF fail = 1 THEN [log |-> lg, handles |-> handles, raised |-> TRUE]
    ELSE IF fail = 2 THEN [log |-> lg, handles |-> handles + 1, raised |-> TRUE]
    ELSE [log |-> lg \o text, handles |-> handles, raised |-> FALSE]

\* with open(log_name, "a") as log_file: log_file.write(text)
\* fail = 1: open raises; fail = 2: write raises; the with statement closes
AppendToLog(lg, handles, text, fail) ==
    IF fail = 1 THEN [log |-> lg, handles |-> handles, raised |-> TRUE]
    ELSE LET opened == handles + 1
             written == IF fail = 2 THEN lg ELSE lg \o text
         IN  [log |-> written, handles |-> opened - 1, raised |-> fail = 2]

\* (mutant) the constructor starts the log anew
Visualizer_init_new_log(self, now, sv, ds, lg, handles) ==
    [saved |-> [sv EXCEPT ![self] = FALSE], dirs |-> ds \cup {ImgDir},
     log |-> HeaderLine(now), handles |-> handles]

\* Visualizer.__init__(opt)
Visualizer_init(self, now, sv, ds, lg, handles) ==
    LET w == AppendToLog(lg, handles, HeaderLine(now), 0)
    IN  [saved |-> [sv EXCEPT ![self] = FALSE], dirs |-> ds \cup {ImgDir},
         log |-> w.log, handles |-> w.handles]

\* (mutant) reset() that leaves the flag as it is
reset_keeps_flag(self, sv) == sv

\* Visualizer.reset()
reset(self, sv) == [sv EXCEPT ![self] = FALSE]

\* (mutant) the condition without the saved flag: every call writes
ShouldSaveAlways(save_result, self_saved) == TRUE

\* the condition of display_current_results
ShouldSave(save_result, self_saved) == save_result \/ ~self_saved

\* (mutant) saved set after the images are written: a failing pass leaves it
display_current_results_flag_last(self, visuals, epoch, iter, save_result, sv, fs, fail) ==
    IF ShouldSave(save_result, sv[self])
    THEN LET r == VisualsLoop(fs, ImgDir, EpochNames(epoch, iter, visuals),
                              visuals, fail)
         IN  [saved |-> IF r.raised THEN sv ELSE [sv EXCEPT ![self] = TRUE],
              files |-> r.files, raised |-> r.raised, pass |-> TRUE]
    ELSE [saved |-> sv, files |-> fs, raised |-> FALSE, pass |-> FALSE]

\* Visualizer.display_current_results(visuals, epoch, iter, save_result)
display_current_results(self, visuals, epoch, iter, save_result, sv, fs, fail) ==
    IF ShouldSave(save_result, sv[self])
    THEN LET r == VisualsLoop(fs, ImgDir, EpochNames(epoch, iter, visuals),
                              visuals, fail)
         IN  [saved |-> [sv EXCEPT ![self] = TRUE], files |-> r.files,
              raised |-> r.raised, pass |-> TRUE]
    ELSE [saved |-> sv, files |-> fs, raised |-> FALSE, pass |-> FALSE]

\* the message of print_current_losses
RECURSIVE LossSegments(_)
LossSegments(losses) ==
    IF losses = <<>> THEN <<>>
    ELSE <<losses[1][1], ": ">> \o Fmt3f(losses[1][2]) \o <<" ">>
         \o LossSegments(Tail(losses))

Message(epoch, iters, losses, t_comp, t_data) ==
    <<"(epoch: ">> \o FmtD(epoch) \o <<", iters: ">> \o FmtD(iters)
    \o <<", time: ">> \o Fmt3f(t_comp) \o <<", data: ">> \o Fmt3f(t_data)
    \o <<") ">> \o LossSegments(losses)

\* (mutant) the log line written without its newline
print_current_losses_no_newline(epoch, iters, losses, t_comp, t_data, so, lg, handles, fail) ==
    LET message == Message(epoch, iters, losses, t_comp, t_data)
        w == AppendToLog(lg, handles, message, fail)
    IN  [out |-> so \o message \o <<"\n">>, log |-> w.log, handles |-> w.handles,
         raised |-> w.raised, message |-> message]

\* Visualizer.print_current_losses(epoch, iters, losses, t_comp, t_data)
print_current_losses(epoch, iters, losses, t_comp, t_data, so, lg, handles, fail) ==
    LET message == Message(epoch, iters, losses, t_comp, t_data)
        w == AppendToLog(lg, handles, message \o <<"\n">>, fail)
    IN  [out |-> so \o message \o <<"\n">>, log |-> w.log, handles |-> w.handles,
         raised |-> w.raised, message |-> message]

\* ------------------------------------------------------------ the history
\* the record of a call: what was called, with what, from which state, and
\* the call before it
Call(op, self, visuals, key, force, fail, raised, pass) ==
    [op |-> op, self |-> self, visuals |-> visuals, key |-> key, force |-> force,
     fail |-> fail, raised |-> raised, pass |-> pass,
     preFiles |-> files, preSaved |-> saved, preLog |-> log, preOut |-> out,
     prePage |-> page,
     prev |-> [op |-> last.op, self |-> last.self, visuals |-> last.visuals,
               key |-> last.key, force |-> last.force, fail |-> last.fail,
               raised |-> last.raised, pass |-> last.pass,
               preSaved |-> last.preSaved]]

\* -------------------------------------------------------------------- Init
\* loss_log.txt as the first constructor finds it: absent, or left by an
\* earlier run over the same checkpoint directory and name
OldLogs == {<<>>, <<"earlier run", "\n">>}

\* the first Visualizer has been constructed
InitOver(olds) ==
    \E old \in olds :
        LET c == Visualizer_init(1, "t1", [l \in Loggers |-> FALSE],
                                 {WebImageDir}, old, 0)
        IN  /\ oldLog = old
            /\ files = [p \in {} |-> p]
            /\ dirs = c.dirs
            /\ log = c.log
            /\ out = <<>>
            /\ openHandles = c.handles
            /\ page = <<>>
            /\ constructed = {1}
            /\ saved = c.saved
            /\ nops = 0
            /\ started = [l \in Loggers |-> FALSE]
            /\ calls = <<HeaderLine("t1")>>
            /\ last = [op |-> "construct", self |-> 1, visuals |-> <<>>,
                       key |-> <<>>, force |-> FALSE, fail |-> 0,
                       raised |-> FALSE, pass |-> FALSE,
                       preFiles |-> [p \in {} |-> p],
                       preSaved |-> [l \in Loggers |-> FALSE],
                       preLog |-> old, preOut |-> <<>>, prePage |-> <<>>,
                       prev |-> [op |-> "none", self |-> 0, visuals |-> <<>>,
                                 key |-> <<>>, force |-> FALSE, fail |-> 0,
                                 raised |-> FALSE, pass |-> FALSE,
                                 preSaved |-> [l \in Loggers |-> FALSE]]]

Init == InitOver(OldLogs)

InitFresh == InitOver({<<>>})

\* ----------------------------------------------------------------- actions
\* a second Visualizer over the same checkpoint directory and name
Construct(self, now) ==
    /\ self \notin constructed
    /\ LET c == Visualizer_init(self, now, saved, dirs, log, openHandles)
       IN  /\ saved' = c.saved
           /\ dirs' = c.dirs
           /\ log' = c.log
           /\ openHandles' = c.handles
    /\ constructed' = constructed \cup {self}
    /\ started' = [started EXCEPT ![self] = FALSE]
    /\ calls' = Append(calls, HeaderLine(now))
    /\ nops' = nops + 1
    /\ last' = Call("construct", self, <<>>, <<>>, FALSE, 0, FALSE, FALSE)
    /\ UNCHANGED <<files, out, page, oldLog>>

Reset(self) ==
    /\ self \in constructed
    /\ saved' = reset(self, saved)
    /\ started' = [started EXCEPT ![self] = FALSE]
    /\ nops' = nops + 1
    /\ last' = Call("reset", self, <<>>, <<>>, FALSE, 0, FALSE, FALSE)
    /\ UNCHANGED <<files, dirs, log, out, openHandles, page, constructed, calls,
                   oldLog>>

\* fail names the image whose conversion or write raises (0: none)
DisplayCurrentResults(self, order, epoch, iter, save_result, fail) ==
    /\ self \in constructed
    /\ fail \in 0..Len(order)
    /\ ShouldSave(save_result, saved[self]) \/ fail = 0
    /\ LET visuals == Visuals(order, nops + 1)
           r == display_current_results(self, visuals, epoch, iter, save_result,
                                        saved, files, fail)
       IN  /\ saved' = r.saved
           /\ files' = r.files
           /\ last' = Call("display", self, visuals, <<epoch, iter>>, save_result,
                           fail, r.raised, r.pass)
    /\ started' = [started EXCEPT ![self] = TRUE]
    /\ nops' = nops + 1
    /\ UNCHANGED <<dirs, log, out, openHandles, page, constructed, calls, oldLog>>

\* fail = 1: opening the log raises; fail = 2: writing to it raises
PrintCurrentLosses(self, epoch, iters, losses, t_comp, t_data, fail) ==
    /\ self \in constructed
    /\ LET r == print_current_losses(epoch, iters, losses, t_comp, t_data,
                                     out, log, openHandles, fail)
       IN  /\ out' = r.out
           /\ log' = r.log
           /\ openHandles' = r.handles
           /\ calls' = IF r.raised THEN calls
                       ELSE Append(calls, r.message \o <<"\n">>)
           /\ last' = Call("print", self, losses,
                           <<epoch, iters, t_comp, t_data>>, FALSE, fail,
                           r.raised, FALSE)
    /\ nops' = nops + 1
    /\ UNCHANGED <<files, dirs, page, constructed, saved, started, oldLog>>

SaveImages(webpage, order, image_path, fail) ==
    /\ fail \in 0..Len(order)
    /\ webpage = "None" => fail = 0
    /\ LET visuals == Visuals(order, nops + 1)
           r == save_images(webpage, visuals, image_path, files, page, fail)
       IN  /\ files' = r.files
           /\ page' = r.page
           /\ last' = Call("save_images", 0, visuals, <<webpage, image_path>>,
                           FALSE, fail, r.raised, webpage # "None")
    /\ nops' = nops + 1
    /\ UNCHANGED <<dirs, log, out, openHandles, constructed, saved, started,
                   calls, oldLog>>

DisplayTestResults(results_dir, order, iter, fail) ==
    /\ fail \in 0..Len(order)
    /\ LET visuals == Visuals(order, nops + 1)
           r == display_test_results(results_dir, visuals, iter, files, dirs, fail)
       IN  /\ files' = r.files
           /\ dirs' = r.dirs
           /\ last' = Call("display_test", 0, visuals, <<results_dir, iter>>,
                           FALSE, fail, r.raised, TRUE)
    /\ nops' = nops + 1
    /\ UNCHANGED <<log, out, openHandles, page, constructed, saved, started,
                   calls, oldLog>>

Fails == 0..Cardinality(Labels)

\* the whole component
Next ==
    \/ /\ nops < MaxCalls
       /\ \E self \in Loggers, now \in Times : Construct(self, now)
    \/ /\ nops < MaxCalls
       /\ \E self \in Loggers : Reset(self)
    \/ /\ nops < MaxCalls
       /\ \E self \in Loggers, order \in LabelOrders, epoch \in Epochs,
             iter \in Iters, save_result \in BOOLEAN, fail \in Fails :
             DisplayCurrentResults(self, order, epoch, iter, save_result, fail)
    \/ /\ nops < MaxCalls
       /\ \E self \in Loggers, epoch \in Epochs, iters \in Iters,
             losses \in LossSets, t_comp \in TimeVals, t_data \in TimeVals,
             fail \in {0, 1, 2} :
             PrintCurrentLosses(self, epoch, iters, losses, t_comp, t_data, fail)
    \/ /\ nops < MaxCalls
       /\ \E webpage \in {"page", "None"}, order \in LabelOrders,
             image_path \in ImagePaths, fail \in Fails :
             SaveImages(webpage, order, image_path, fail)
    \/ /\ nops < MaxCalls
       /\ \E results_dir \in ResultsDirs, order \in LabelOrders, iter \in Iters,
             fail \in Fails :
             DisplayTestResults(results_dir, order, iter, fail)

Spec == Init /\ [][Next]_vars

\* one Visualizer, its reset and display_current_results alone, in longer runs
NextDisplay ==
    \/ /\ nops < MaxDisplayCalls
       /\ \E self \in Loggers : Reset(self)
    \/ /\ nops < MaxDisplayCalls
       /\ \E self \in Loggers, order \in LabelOrders, epoch \in Epochs,
             iter \in Iters, save_result \in BOOLEAN, fail \in Fails :
             DisplayCurrentResults(self, order, epoch, iter, save_result, fail)

SpecDisplay == InitFresh /\ [][NextDisplay]_vars

\* =================================================================== claims
\* What the claims say, written from their words and not from the operators
\* above: the file names, the base names and the rendered numbers are spelled
\* out here a second time.

\* {n:03d} for 0 <= n <= 999
Pad3(n) ==
    <<DigitStr[((n \div 100) % 10) + 1], DigitStr[((n \div 10) % 10) + 1],
      DigitStr[(n % 10) + 1]>>

\* epoch{e:03d}_iter{i:03d}_
StepPrefix(e, i) == <<"epoch">> \o Pad3(e) \o <<"_iter">> \o Pad3(i) \o <<"_">>

\* the path of every image of a call, by the naming scheme its operation has
StepPath(e, i, label) == <<ImgDir, StepPrefix(e, i) \o <<label, ".png">> >>
IterPath(dir, i, label) == <<dir, <<"iter">> \o Pad3(i) \o <<"_", label, ".png">> >>
BaseName(image_path) ==
    IF image_path[1] = <<"data", "/", "s1", ".jpg">> THEN <<"s1">>
    ELSE <<"s2", ".tar">>
SamplePath(image_path, label) ==
    <<WebImageDir, BaseName(image_path) \o <<"_", label, ".png">> >>

PathOf(c, k) ==
    IF c.op = "display" THEN StepPath(c.key[1], c.key[2], c.visuals[k][1])
    ELSE IF c.op = "display_test" THEN IterPath(c.key[1], c.key[2], c.visuals[k][1])
    ELSE SamplePath(c.key[2], c.visuals[k][1])

\* the paths of the first n images of a call
PathsOf(c, n) == {PathOf(c, k) : k \in 1..n}

\* the file at the path of the k-th image of a call holds that image
Holds(fs, c, k) ==
    /\ PathOf(c, k) \in DOMAIN fs
    /\ fs[PathOf(c, k)].im = c.visuals[k][2]

\* outside the paths in ps, the files fs are the files pre
SameOutside(fs, pre, ps) ==
    /\ (DOMAIN fs) \ ps = (DOMAIN pre) \ ps
    /\ \A p \in (DOMAIN fs) \ ps : fs[p] = pre[p]

\* the files of the image directory that belong to step (e, i)
FilesOfStep(fs, e, i) ==
    {p \in DOMAIN fs : p[1] = ImgDir /\ IsPrefix(StepPrefix(e, i), p[2])}

ImageOps == {"display", "display_test", "save_images"}

\* the last call was display_current_results(.., save_result=True) and returned
ForcedDisplayReturned == last.op = "display" /\ last.force /\ ~last.raised

\* the last call was display_current_results(.., save_result=False), made
\* right after a display_current_results(.., save_result=True) on the same logger
UnforcedAfterForced ==
    /\ last.op = "display" /\ ~last.force
    /\ last.prev.op = "display" /\ last.prev.force /\ last.prev.self = last.self

\* C1 as claimed: after display_current_results(visuals, e, i, True) exactly the
\* n files epoch{e:03d}_iter{i:03d}_{label}.png exist for (e, i), and a directly
\* following call with save_result=False creates and modifies no file.
\* (Stated for n >= 1.)
C1_AsClaimed ==
    /\ ForcedDisplayReturned /\ last.visuals # <<>> =>
           FilesOfStep(files, last.key[1], last.key[2])
               = PathsOf(last, Len(last.visuals))
    /\ UnforcedAfterForced => files = last.preFiles

\* C1 amended: after display_current_results(visuals, e, i, True) returns, the n
\* files epoch{e:03d}_iter{i:03d}_{label}.png exist and hold the images of the
\* call; the files of (e, i) are these n and those an earlier call left for
\* (e, i) under other labels; no other file is touched.  A directly following
\* call with save_result=False creates and modifies no file.
C1_ForcedDisplayWritesItsFiles ==
    /\ ForcedDisplayReturned =>
           /\ \A k \in 1..Len(last.visuals) : Holds(files, last, k)
           /\ FilesOfStep(files, last.key[1], last.key[2])
                  = PathsOf(last, Len(last.visuals))
                    \cup FilesOfStep(last.preFiles, last.key[1], last.key[2])
           /\ SameOutside(files, last.preFiles, PathsOf(last, Len(last.visuals)))
    /\ UnforcedAfterForced => files = last.preFiles

C1_Witness ==
    /\ UnforcedAfterForced
    /\ ~last.prev.raised
    /\ last.visuals # <<>>
    /\ last.prev.visuals # <<>>
    /\ files = last.preFiles
    /\ files # [p \in {} |-> p]

\* the last call was display_current_results(.., save_result=False), made
\* right after reset() on the same logger
UnforcedAfterReset ==
    /\ last.op = "display" /\ ~last.force
    /\ last.prev.op = "reset" /\ last.prev.self = last.self

\* C2: reset() followed directly by display_current_results(visuals, e, i, False)
\* leaves the files and the saved flags that display_current_results(visuals,
\* e, i, True) leaves from the state before the reset: one file is written per
\* label, and saved ends true.
C2_ResetForcesWrite ==
    UnforcedAfterReset =>
        LET forced == display_current_results(last.self, last.visuals,
                          last.key[1], last.key[2], TRUE, last.prev.preSaved,
                          last.preFiles, last.fail)
        IN  /\ files = forced.files
            /\ saved = forced.saved
            /\ saved[last.self]
            /\ ~last.raised =>
                   \A k \in 1..Len(last.visuals) : Holds(files, last, k)

C2_Witness ==
    /\ UnforcedAfterReset
    /\ last.prev.preSaved[last.self]
    /\ ~last.raised
    /\ Len(last.visuals) = 2
    /\ \A k \in 1..Len(last.visuals) : Holds(files, last, k)

RECURSIVE Flatten(_)
\* the lines of a sequence of lines, one after the other
Flatten(lines) ==
    IF lines = <<>> THEN <<>> ELSE lines[1] \o Flatten(Tail(lines))

IsMessage(line) == line[1] = "(epoch: "

\* C3 as claimed: the log is the header line written by the constructor followed
\* by exactly the message lines of the print_current_losses calls, in call
\* order, with nothing before the header and nothing between the lines.
C3_AsClaimed ==
    log = calls[1] \o Flatten(SelectSeq(calls, IsMessage))

\* C3 amended: the log is what the file held before the constructor ran (nothing
\* for a fresh directory), then the header line, then in call order the line of
\* every completed print_current_losses call and the header of every further
\* logger constructed over the same directory; nothing is lost or reordered.
C3_LogIsOldContentThenCalls ==
    /\ calls[1] = <<"================ Training Loss (", "t1",
                    ") ================", "\n">>
    /\ log = oldLog \o Flatten(calls)

C3_Witness ==
    /\ oldLog # <<>>
    /\ last.op = "print" /\ ~last.raised /\ last.visuals # <<>>
    /\ last.prev.op = "print" /\ ~last.prev.raised
    /\ Len(calls) = 3

\* C4: the log file is append-only: whatever the operation (constructing a
\* logger, also a second one over the same directory and name, reset,
\* display_current_results, print_current_losses, save_images,
\* display_test_results), the log before it is a prefix of the log after it.
C4_LogAppendOnly ==
    /\ IsPrefix(last.preLog, log)
    /\ IsPrefix(oldLog, log)
    /\ last.op \notin {"construct", "print"} => log = last.preLog

C4_Witness ==
    /\ last.op = "construct" /\ last.self = 2
    /\ last.prev.op = "print" /\ ~last.prev.raised
    /\ oldLog # <<>>
    /\ Len(log) > Len(last.preLog)

\* the numbers of the inputs as the claim's format shows them
ShownInt(n) == IF n = 1 THEN <<"1">> ELSE IF n = 2 THEN <<"2">> ELSE <<"1", "2">>
ShownFloat(x) ==
    IF x = 1004 THEN <<"0", ".", "1", "0", "0">>
    ELSE IF x = 12348 THEN <<"1", ".", "2", "3", "5">>
    ELSE <<"0", ".", "5", "0", "0">>

\* '{name}: {value} '
ShownLoss(entry) == <<entry[1], ": ">> \o ShownFloat(entry[2]) \o <<" ">>

\* the line of a print_current_losses call, by the format of the claim
ShownLine(c) ==
    <<"(epoch: ">> \o ShownInt(c.key[1]) \o <<", iters: ">> \o ShownInt(c.key[2])
    \o <<", time: ">> \o ShownFloat(c.key[3]) \o <<", data: ">>
    \o ShownFloat(c.key[4]) \o <<") ">>
    \o Flatten([k \in 1..Len(c.visuals) |-> ShownLoss(c.visuals[k])])

\* C9: print_current_losses builds the line '(epoch: E, iters: I, time: T, data:
\* D) ' followed by one '{name}: {value} ' per LossSet entry in insertion order,
\* writes it and a newline to standard output, appends the same line and newline
\* to the log file, and leaves no handle on the log file open, whether the call
\* returns or the write raises.
C9_LineFormatAndHandle ==
    /\ openHandles = 0
    /\ last.op = "print" =>
           /\ out = last.preOut \o ShownLine(last) \o <<"\n">>
           /\ ~last.raised => log = last.preLog \o ShownLine(last) \o <<"\n">>

C9_Witness ==
    /\ last.op = "print" /\ ~last.raised
    /\ Len(last.visuals) = 2 /\ last.visuals[1][1] = "D"
    /\ last.key[2] = 12
    /\ last.prev.op = "print" /\ last.prev.raised /\ last.prev.fail = 2
    /\ openHandles = 0

\* C10: saved is false exactly when no display_current_results call has been
\* started since construction or the last reset(): a display call ends with
\* saved true whether it wrote, skipped or failed part-way, and
\* print_current_losses, save_images and display_test_results leave saved as it
\* is; an unforced call right after a display call, failed or not, writes nothing.
C10_SavedIffDisplayedSinceReset ==
    /\ \A self \in constructed : saved[self] = started[self]
    /\ last.op = "display" => saved[last.self]
    /\ last.op = "reset" => ~saved[last.self]
    /\ last.op \in {"print", "save_images", "display_test"} => saved = last.preSaved
    /\ (last.op = "display" /\ ~last.force /\ last.prev.op = "display"
            /\ last.prev.self = last.self) => files = last.preFiles

C10_Witness ==
    /\ last.op = "display" /\ last.raised /\ last.fail = 2
    /\ ~last.preSaved[last.self]
    /\ saved[last.self]
    /\ files # last.preFiles

\* the last call was save_images with a page object, and it returned
SaveImagesReturned ==
    last.op = "save_images" /\ last.key[1] = "page" /\ ~last.raised

\* C5: save_images records every image it writes in the HTML index builder:
\* after the call the builder holds, under a header equal to the base name of
\* image_path[0], one entry per label in insertion order, each with the written
\* file name {base}_{label}.png, the label as caption and the file name as link.
C5_AsClaimed ==
    SaveImagesReturned =>
        LET n == Len(last.visuals)
            fnames == [k \in 1..n |->
                          BaseName(last.key[2]) \o <<"_", last.visuals[k][1], ".png">>]
            labels == [k \in 1..n |-> last.visuals[k][1]]
        IN  /\ Len(page) = Len(last.prePage) + 2
            /\ SubSeq(page, 1, Len(last.prePage)) = last.prePage
            /\ page[Len(page) - 1].kind = "header"
            /\ page[Len(page) - 1].text = BaseName(last.key[2])
            /\ page[Len(page)].kind = "images"
            /\ page[Len(page)].ims = fnames
            /\ page[Len(page)].txts = labels
            /\ page[Len(page)].links = fnames

\* the last call was save_images with an empty VisualSet
SaveImagesOfNothing == last.op = "save_images" /\ last.visuals = <<>>

\* C6 as claimed: save_images with an empty VisualSet writes no file; with an
\* index builder it registers one section header (the base name) and no image
\* entry; without an index builder the call completes without error.
C6_AsClaimed ==
    SaveImagesOfNothing =>
        /\ files = last.preFiles
        /\ ~last.raised
        /\ page = IF last.key[1] = "page"
                  THEN Append(last.prePage,
                              [kind |-> "header", text |-> BaseName(last.key[2])])
                  ELSE last.prePage

\* C6 amended: save_images with an empty VisualSet writes no file; with an index
\* builder it returns and has registered one section header (the base name) and
\* no image entry; without one (None) it raises before anything is written or
\* registered.
C6_EmptyVisualSet ==
    SaveImagesOfNothing =>
        /\ files = last.preFiles
        /\ last.raised = (last.key[1] = "None")
        /\ page = IF last.key[1] = "page"
                  THEN Append(last.prePage,
                              [kind |-> "header", text |-> BaseName(last.key[2])])
                  ELSE last.prePage

C6_Witness ==
    /\ SaveImagesOfNothing
    /\ last.key[1] = "page"
    /\ BaseName(last.key[2]) = <<"s2", ".tar">>
    /\ Len(page) = 2
    /\ files = last.preFiles

\* the last call wrote all the images of its VisualSet
WrotePass(c) == c.op \in ImageOps /\ c.pass /\ ~c.raised

\* the last call repeats the call before it: same operation, same naming
\* inputs, same labels
RepeatsPrevious ==
    /\ WrotePass(last) /\ WrotePass(last.prev)
    /\ last.prev.op = last.op
    /\ last.prev.key = last.key
    /\ KeysOf(last.prev.visuals) = KeysOf(last.visuals)

\* C7: image paths are a function of the naming tuple only, so repeated saves
\* overwrite: after a save every image of the call is the content of the one
\* file at its path (iter{iter:03d}_{label}.png, epoch{e:03d}_iter{i:03d}_
\* {label}.png, {base}_{label}.png), and a call that repeats the naming inputs
\* of the call before it adds no file.
C7_RepeatOverwrites ==
    WrotePass(last) =>
        /\ \A k \in 1..Len(last.visuals) : Holds(files, last, k)
        /\ DOMAIN files
               = (DOMAIN last.preFiles) \cup PathsOf(last, Len(last.visuals))
        /\ RepeatsPrevious =>
               /\ DOMAIN files = DOMAIN last.preFiles
               /\ \A k \in 1..Len(last.visuals) :
                      last.preFiles[PathOf(last, k)].im # files[PathOf(last, k)].im

C7_Witness ==
    /\ RepeatsPrevious
    /\ last.op = "display_test"
    /\ Len(last.visuals) = 2
    /\ \A k \in 1..2 : last.preFiles[PathOf(last, k)].im # last.visuals[k][2]
    /\ \A k \in 1..2 : Holds(files, last, k)

\* the k-th image of the last call failed
FailedAtImage == last.op \in ImageOps /\ last.pass /\ last.raised

\* C8 as claimed: when the k-th image of a VisualSet fails, no image of the set
\* has been written by the call: the files are those before the call.
C8_AsClaimed ==
    FailedAtImage => files = last.preFiles

\* C8 amended: when the k-th image of a VisualSet fails, the error reaches the
\* caller, the k - 1 images before it have been written and stay written, and
\* the k-th and the later ones are not written; nothing is rolled back.
C8_FailureKeepsEarlierImages ==
    FailedAtImage =>
        /\ last.fail \in 1..Len(last.visuals)
        /\ \A k \in 1..(last.fail - 1) : Holds(files, last, k)
        /\ SameOutside(files, last.preFiles, PathsOf(last, last.fail - 1))

C8_Witness ==
    /\ FailedAtImage
    /\ last.op = "save_images"
    /\ last.fail = 2
    /\ Holds(files, last, 1)
    /\ PathOf(last, 2) \notin DOMAIN files
    /\ files # last.preFiles

====
